---- MODULE Spec2Model ----
(***************************************************************************)
(* Detection & escalation engine of no-csam-bot.                           *)
(*                                                                         *)
(* Scan scheduler (DetectionQueue, scanImageQueued), the scan chain        *)
(* (scanImage: checkHashMatch -> detectWithAPI -> thresholds) and the      *)
(* classifier adapters (bot side and Cloudflare worker side).              *)
(*                                                                         *)
(* Confidences, scores and thresholds are percentages (0.85 is 85).        *)
(* Requests are numbered in the order scanImageQueued is called.           *)
(***************************************************************************)
EXTENDS Integers, Sequences, FiniteSets, TLC

\* ------------------------------------------------------------------ bounds
MaxReq == 3          \* scan requests submitted in one run
MaxN == 2            \* largest configured maxConcurrentScans
HashLen == 20        \* length of a computed perceptual hash
MaxRows == 2         \* rows the hash store can hold
MaxOffenses == 2     \* flagged detections attributed to the user in one run

Req == 1..MaxReq

\* --------------------------------------------------------- program constants
WorkerDetectPercent == 85    \* worker: detected = nsfwScore > 0.85
HashMatchPercent == 95       \* checkHashMatch: similarity >= 0.95
HashMatchConfidence == 100   \* scanImage: confidence 1.0 on a hash match
DefaultDetectionThreshold == 85   \* DETECTION_THRESHOLD default 0.85
DefaultReviewThreshold == 70      \* REVIEW_THRESHOLD default 0.70
DefaultImageMaxSizeMB == 10       \* IMAGE_MAX_SIZE_MB default 10

VARIABLES
  config,        \* config.detection: thresholds, concurrency, providers
  adapter,       \* which apiDetector module the pipeline is linked with
  hashDatabase,  \* prisma.hashDatabase rows, in iteration order
  pc,            \* per request: position in scanImageQueued / processNext
  queue,         \* DetectionQueue.queue
  processing,    \* DetectionQueue.processing
  scanResult,    \* per request: what scanImage settled with
  outcome,       \* per request: state of the promise scanImageQueued returned
  settles,       \* per request: number of item.resolve / item.reject calls
  admits,        \* per request: number of times processNext shifted it
  addOrder,      \* requests in the order DetectionQueue.add pushed them
  admitOrder,    \* requests in the order processNext admitted them
  apiCalls,      \* per request: number of detectWithAPI invocations
  providerFailed, \* per request: how the provider call of its scan went
  hashOutcome,   \* per request: how checkHashMatch settled in its scan
  providerCalls, \* per request: the providers its scan sent an HTTP call to
  imageSize,     \* per request: size in MB of the image behind its url
  hashOp,        \* hash store: the last operation and what it returned
  workerOp,      \* worker: the last request it served and its response
  user,          \* the User row of the one user observed (or none yet)
  bans,          \* the Ban rows of that user, by id
  guildCfg,      \* per guild: its autoDelete and autoBan settings
  offense,       \* per flagged detection: where its handling stands
  discordBans,   \* guilds in which a Discord ban was issued for the user
  lastDecision,  \* the last moderator decision or join and what it returned
  manager,       \* which handler module does the escalation: banManager
                 \* ("ban") or timeoutManager ("timeout")
  moderatorReviews, \* number of ModeratorReview rows
  discordTimeouts, \* guilds in which a Discord timeout was issued for the user
  attachment,    \* per request: how processImageAttachment dealt with its scan
  deleted        \* flagged detections whose message was deleted

\* the escalation state
escVars == <<user, bans, guildCfg, offense, discordBans, lastDecision, manager,
            moderatorReviews, discordTimeouts, attachment, deleted>>

\* what only the sanction of an offense can touch, and the build settings
escRest == <<guildCfg, manager, moderatorReviews, discordTimeouts, attachment,
            deleted>>

\* what the scan scheduler and the scan chain never touch
otherVars == <<hashOp, workerOp, escVars>>

\* the scheduler's and the scan chain's own state
schedVars == <<config, adapter, pc, queue, processing, scanResult, outcome,
               settles, admits, addOrder, admitOrder, apiCalls, providerFailed,
               hashOutcome, providerCalls, imageSize>>

\* the detection side as a whole
detectVars == <<schedVars, hashDatabase, hashOp, workerOp>>

vars == <<config, adapter, hashDatabase, pc, queue, processing, scanResult,
          outcome, settles, admits, addOrder, admitOrder, apiCalls,
          providerFailed, hashOutcome, providerCalls, imageSize, otherVars>>

\* ------------------------------------------------------------------ hashes
Zeros(n) == [i \in 1..n |-> 0]
Ones(n) == [i \in 1..n |-> 1]
\* h with its first k characters replaced by 1
FlipFirst(h, k) == [i \in 1..Len(h) |-> IF i <= k THEN 1 ELSE h[i]]

\* an image is identified by the hash bmvbhash gives it, or is undecodable
ImageHashes == {Zeros(HashLen), FlipFirst(Zeros(HashLen), 1),
                FlipFirst(Zeros(HashLen), 2), Ones(HashLen)}
Corrupt == [decodable |-> FALSE, hash |-> <<>>]
Images == {[decodable |-> TRUE, hash |-> h] : h \in ImageHashes} \cup {Corrupt}

Threw == [threw |-> TRUE]

computePerceptualHash(img) ==
  IF ~img.decodable THEN Threw ELSE [threw |-> FALSE, hash |-> img.hash]

\* faulty variant: no length check, positions past the end of hash2 differ
calculateHammingDistance_noLengthCheck(hash1, hash2) ==
  [num |-> Cardinality({i \in 1..Len(hash1) :
                          i <= Len(hash2) /\ hash1[i] = hash2[i]}),
   den |-> Len(hash1)]

\* similarity as the exact fraction num/den; den = 0 is JavaScript's 0/0 (NaN)
calculateHammingDistance(hash1, hash2) ==
  IF Len(hash1) # Len(hash2)
  THEN [num |-> 0, den |-> 1]
  ELSE [num |-> Cardinality({i \in 1..Len(hash1) : hash1[i] = hash2[i]}),
        den |-> Len(hash1)]

\* similarity >= 0.95 (false for NaN)
SimilarityMatches(s) == s.den > 0 /\ s.num * 100 >= HashMatchPercent * s.den

\* findMany({where: {active: true}}): the active rows, in order
RECURSIVE ActiveHashes(_)
ActiveHashes(db) ==
  IF db = <<>> THEN <<>>
  ELSE IF Head(db).active
       THEN <<Head(db).hash>> \o ActiveHashes(Tail(db))
       ELSE ActiveHashes(Tail(db))

RECURSIVE FirstMatch(_, _)
FirstMatch(hash, known) ==
  IF known = <<>> THEN [matched |-> FALSE]
  ELSE IF SimilarityMatches(calculateHammingDistance(hash, Head(known)))
       THEN [matched |-> TRUE, matchedHash |-> Head(known)]
       ELSE FirstMatch(hash, Tail(known))

\* faulty variant: the query does not filter on active
checkHashMatch_allRows(img, db) ==
  LET h == computePerceptualHash(img) IN
  IF h.threw THEN Threw
  ELSE LET m == FirstMatch(h.hash, [i \in 1..Len(db) |-> db[i].hash]) IN
       IF m.matched
       THEN [threw |-> FALSE, matched |-> TRUE, hash |-> h.hash,
             matchedHash |-> m.matchedHash]
       ELSE [threw |-> FALSE, matched |-> FALSE, hash |-> h.hash]

checkHashMatch(img, db) ==
  LET h == computePerceptualHash(img) IN
  IF h.threw THEN Threw
  ELSE LET m == FirstMatch(h.hash, ActiveHashes(db)) IN
       IF m.matched
       THEN [threw |-> FALSE, matched |-> TRUE, hash |-> h.hash,
             matchedHash |-> m.matchedHash]
       ELSE [threw |-> FALSE, matched |-> FALSE, hash |-> h.hash]

\* prisma.hashDatabase.create: a new row, active
addKnownHash(db, hash) == Append(db, [hash |-> hash, active |-> TRUE])

\* faulty variant: the rows are deleted
removeHash_delete(db, hash) == SelectSeq(db, LAMBDA row : row.hash # hash)

\* prisma.hashDatabase.updateMany({where: {hash}, data: {active: false}})
removeHash(db, hash) ==
  [i \in 1..Len(db) |->
     IF db[i].hash = hash THEN [db[i] EXCEPT !.active = FALSE] ELSE db[i]]

\* ------------------------------------------------------ classifier adapters
\* What the outside world answers to one classification attempt:
\*   net     the bot's HTTP call reaches its provider and gets an answer in time
\*   envKey  the API_KEY secret the worker was deployed with
\*   img     the worker can fetch the image
\*   ai      the Cloudflare AI endpoint answers 2xx with a well-formed result
\*   label   the AI result carries an nsfw label;  score  that label's score
\*   sa, sd, prob   Sightengine's sexual_activity, sexual_display, offensive.prob
BaseWorld == [net |-> TRUE, envKey |-> "k1", img |-> TRUE, ai |-> TRUE,
              label |-> TRUE, score |-> 0, sa |-> 0, sd |-> 0, prob |-> 0]

FailureWorlds ==
  { [BaseWorld EXCEPT !.net = FALSE], [BaseWorld EXCEPT !.envKey = "k2"],
    [BaseWorld EXCEPT !.img = FALSE], [BaseWorld EXCEPT !.ai = FALSE] }

\* S: scores of the single-score providers; T: Sightengine's sub-scores
Worlds(S, T) ==
  FailureWorlds
  \cup { [BaseWorld EXCEPT !.score = s, !.prob = s] : s \in S }
  \cup { [BaseWorld EXCEPT !.label = FALSE, !.score = s] : s \in T }
  \cup { [BaseWorld EXCEPT !.sa = t[1], !.sd = t[2], !.prob = t[3]] :
            t \in T \X T \X T }

Max(a, b) == IF a >= b THEN a ELSE b

APIResult(detected, confidence, provider, error) ==
  [threw |-> FALSE, detected |-> detected, confidence |-> confidence,
   provider |-> provider, error |-> error]

\* faulty variant: the catch block logs and rethrows
AdapterCatch_rethrow(provider, message) ==
  [APIResult(FALSE, 0, provider, message) EXCEPT !.threw = TRUE]

\* the catch block shared by the three bot-side adapters
AdapterCatch(provider, message) == APIResult(FALSE, 0, provider, message)

\* worker/index.ts catch block of detectImage
DetectImageCatch(message) ==
  APIResult(FALSE, 0, "cloudflare-worker", message)

\* worker/index.ts detectImage
detectImage(w) ==
  IF ~w.img THEN DetectImageCatch("Failed to fetch image")
  ELSE IF ~w.ai THEN DetectImageCatch("AI API error")
  ELSE LET nsfwScore == IF w.label THEN w.score ELSE 0 IN
       APIResult(nsfwScore > WorkerDetectPercent, nsfwScore,
                 "cloudflare-worker", "")

\* faulty variant: any key that is present is accepted
WorkerFetch_anyKey(request, w) ==
  IF request.method = "OPTIONS"
  THEN [status |-> 200, outbound |-> FALSE, body |-> "none"]
  ELSE IF request.method # "POST"
  THEN [status |-> 405, outbound |-> FALSE, body |-> "Method not allowed"]
  ELSE IF request.apiKey = ""
  THEN [status |-> 401, outbound |-> FALSE, body |-> "Unauthorized"]
  ELSE IF ~request.imageUrl
  THEN [status |-> 400, outbound |-> FALSE, body |-> "imageUrl is required"]
  ELSE [status |-> 200, outbound |-> TRUE, body |-> detectImage(w)]

\* worker/index.ts fetch: request = [method, apiKey, imageUrl]
\* outbound: the handler ran detectImage (image fetch and AI call)
WorkerFetch(request, w) ==
  IF request.method = "OPTIONS"
  THEN [status |-> 200, outbound |-> FALSE, body |-> "none"]
  ELSE IF request.method # "POST"
  THEN [status |-> 405, outbound |-> FALSE, body |-> "Method not allowed"]
  ELSE IF request.apiKey = "" \/ request.apiKey # w.envKey
  THEN [status |-> 401, outbound |-> FALSE, body |-> "Unauthorized"]
  ELSE IF ~request.imageUrl
  THEN [status |-> 400, outbound |-> FALSE, body |-> "imageUrl is required"]
  ELSE [status |-> 200, outbound |-> TRUE, body |-> detectImage(w)]

\* apiDetector.ts detectWithCloudflareWorker
detectWithCloudflareWorker(cfg, w) ==
  IF ~cfg.workerUrl \/ cfg.workerApiKey = ""
  THEN APIResult(FALSE, 0, "cloudflare-worker",
                 "Cloudflare Worker URL or API key not configured")
  ELSE IF ~w.net THEN AdapterCatch("cloudflare-worker", "network error")
  ELSE LET response == WorkerFetch([method |-> "POST",
                                    apiKey |-> cfg.workerApiKey,
                                    imageUrl |-> TRUE], w) IN
       IF response.status # 200
       THEN AdapterCatch("cloudflare-worker", "Request failed with status code")
       ELSE APIResult(response.body.detected, response.body.confidence,
                      "cloudflare-worker", "")

\* part_001 detectWithCloudflare
detectWithCloudflare(cfg, w) ==
  IF ~cfg.cloudflare
  THEN APIResult(FALSE, 0, "cloudflare", "Cloudflare API not configured")
  ELSE IF ~w.net THEN AdapterCatch("cloudflare", "network error")
  ELSE IF ~w.ai THEN AdapterCatch("cloudflare", "Request failed with status code")
  ELSE LET nsfwScore == IF w.label THEN w.score ELSE 0 IN
       APIResult(nsfwScore > cfg.detectionThreshold, nsfwScore, "cloudflare", "")

\* apiDetector.ts / part_001 detectWithSightengine
detectWithSightengine(cfg, w) ==
  IF ~cfg.sightengine
  THEN APIResult(FALSE, 0, "sightengine", "Sightengine API not configured")
  ELSE IF ~w.net THEN AdapterCatch("sightengine", "network error")
  ELSE LET nudityScore == IF w.sa # 0 THEN w.sa ELSE IF w.sd # 0 THEN w.sd ELSE 0
           offensiveScore == w.prob
           confidence == Max(nudityScore, offensiveScore) IN
       APIResult(confidence > cfg.detectionThreshold, confidence, "sightengine", "")

NoProvider == APIResult(FALSE, 0, "none", "No API provider configured")

\* apiDetector.ts detectWithAPI(imageUrl)
detectWithAPI(cfg, w) ==
  IF cfg.workerUrl THEN detectWithCloudflareWorker(cfg, w)
  ELSE IF cfg.sightengine THEN detectWithSightengine(cfg, w)
  ELSE NoProvider

\* part_001 detectWithAPI(imageBuffer, imageUrl); scanImage always passes a url
detectWithAPI_buffer(cfg, w) ==
  IF cfg.cloudflare THEN detectWithCloudflare(cfg, w)
  ELSE IF cfg.sightengine THEN detectWithSightengine(cfg, w)
  ELSE NoProvider

\* the outbound HTTP calls each adapter makes, in order: an adapter calls its
\* provider exactly when it gets past its own configuration check
CallsOfCloudflareWorker(cfg) ==
  IF ~cfg.workerUrl \/ cfg.workerApiKey = "" THEN <<>>
  ELSE <<"cloudflare-worker">>

CallsOfCloudflare(cfg) == IF ~cfg.cloudflare THEN <<>> ELSE <<"cloudflare">>

CallsOfSightengine(cfg) == IF ~cfg.sightengine THEN <<>> ELSE <<"sightengine">>

\* apiDetector.ts detectWithAPI: the adapter it hands the request to
CallsOfDetectWithAPI(cfg) ==
  IF cfg.workerUrl THEN CallsOfCloudflareWorker(cfg)
  ELSE IF cfg.sightengine THEN CallsOfSightengine(cfg)
  ELSE <<>>

\* part_001 detectWithAPI: the adapter it hands the request to
CallsOfDetectWithAPI_buffer(cfg) ==
  IF cfg.cloudflare THEN CallsOfCloudflare(cfg)
  ELSE IF cfg.sightengine THEN CallsOfSightengine(cfg)
  ELSE <<>>

ClassifyCalls(adp, cfg) ==
  IF adp = "url" THEN CallsOfDetectWithAPI(cfg)
  ELSE CallsOfDetectWithAPI_buffer(cfg)

\* the detectWithAPI the pipeline's import resolves to
Classify(adp, cfg, w) ==
  IF adp = "url" THEN detectWithAPI(cfg, w) ELSE detectWithAPI_buffer(cfg, w)

\* did the call to the selected provider fail?
\*   "call"      network error, non-2xx or timeout of the adapter's own call
\*   "upstream"  the worker answered 200 but its own image or AI call failed
\*   "no"        the provider answered with a classification (or none was called)
ProviderFailure(adp, cfg, w) ==
  LET viaWorker == adp = "url" /\ cfg.workerUrl /\ cfg.workerApiKey # ""
      viaCloudflare == adp = "buffer" /\ cfg.cloudflare
      viaSightengine == /\ cfg.sightengine
                        /\ \/ adp = "url" /\ ~cfg.workerUrl
                           \/ adp = "buffer" /\ ~cfg.cloudflare
  IN IF viaWorker
     THEN IF ~w.net \/ w.envKey # cfg.workerApiKey THEN "call"
          ELSE IF ~w.img \/ ~w.ai THEN "upstream" ELSE "no"
     ELSE IF viaCloudflare THEN IF ~w.net \/ ~w.ai THEN "call" ELSE "no"
     ELSE IF viaSightengine THEN IF ~w.net THEN "call" ELSE "no"
     ELSE "no"

\* ------------------------------------------------------------------ scanImage
NoApiDetection == [threw |-> FALSE, detected |-> FALSE, confidence |-> 0,
                   provider |-> "-", error |-> "-"]

NoResult == [kind |-> "none", flagged |-> FALSE, confidence |-> 0,
             method |-> "-", requiresReview |-> FALSE,
             apiDetection |-> NoApiDetection]

\* faulty variant: the catch block returns a clean result
ScanError_silentPass == [NoResult EXCEPT !.kind = "ok"]

\* scanImage threw (its catch block rethrows)
ScanError == [NoResult EXCEPT !.kind = "error"]

DetectionResult(flagged, confidence, method, requiresReview, api) ==
  [kind |-> "ok", flagged |-> flagged, confidence |-> confidence,
   method |-> method, requiresReview |-> requiresReview, apiDetection |-> api]

\* faulty variant: the hash match does not return early: the classifier decides
scanImageHashStage_noReturn(hashResult) ==
  IF hashResult.threw THEN [next |-> "throw", result |-> ScanError]
  ELSE [next |-> "classify", result |-> NoResult]

\* scanImage up to and including the hash-match branch:
\* throw, return the hash_match result, or go on to detectWithAPI
scanImageHashStage(hashResult) ==
  IF hashResult.threw THEN [next |-> "throw", result |-> ScanError]
  ELSE IF hashResult.matched
  THEN [next |-> "return",
        result |-> DetectionResult(TRUE, HashMatchConfidence, "hash_match",
                                   FALSE, NoApiDetection)]
  ELSE [next |-> "classify", result |-> NoResult]

\* faulty variant: the review band has no lower bound
scanImageDecide_noLowerBound(cfg, apiResult) ==
  IF apiResult.threw THEN ScanError
  ELSE DetectionResult(apiResult.detected, apiResult.confidence,
                       apiResult.provider,
                       apiResult.confidence < cfg.detectionThreshold, apiResult)

\* scanImage after detectWithAPI settled
scanImageDecide(cfg, apiResult) ==
  IF apiResult.threw THEN ScanError
  ELSE LET flagged == apiResult.detected
           confidence == apiResult.confidence
           requiresReview == /\ confidence >= cfg.reviewThreshold
                             /\ confidence < cfg.detectionThreshold
       IN DetectionResult(flagged, confidence, apiResult.provider,
                          requiresReview, apiResult)

\* downloadImage: axios fails on a network error or when the body exceeds
\* maxContentLength = imageMaxSizeMB MB; sizes are in whole MB
downloadImage(cfg, netOk, size) ==
  IF ~netOk \/ size > cfg.imageMaxSizeMB
  THEN Threw ELSE [threw |-> FALSE, size |-> size]

\* scanImageQueued's own size check on the downloaded buffer
ExceedsMaxSize(cfg, size) == size > cfg.imageMaxSizeMB

\* faulty variant: neither the download nor scanImageQueued limits the size
RejectsBeforeQueue_noLimit(cfg, netOk, size) == ~netOk

\* scanImageQueued throws before it reaches detectionQueue.add
RejectsBeforeQueue(cfg, netOk, size) ==
  downloadImage(cfg, netOk, size).threw \/ ExceedsMaxSize(cfg, size)

\* ------------------------------------------------------------ DetectionQueue
\* faulty variant: the guard compares with > : one scan too many is admitted
CanAdmit_gt(processingNow, queueLength) ==
  ~(processingNow > config.maxConcurrentScans \/ queueLength = 0)

\* faulty variant: the guard is off by one the other way: the last slot is never used
CanAdmit_early(processingNow, queueLength) ==
  ~(processingNow + 1 >= config.maxConcurrentScans \/ queueLength = 0)

\* processNext's guard: false means return without admitting
CanAdmit(processingNow, queueLength) ==
  ~(processingNow >= config.maxConcurrentScans \/ queueLength = 0)

\* faulty variant: pop() instead of shift(): the newest item is taken
Shift_pop(q) == [item |-> q[Len(q)], rest |-> SubSeq(q, 1, Len(q) - 1)]

\* this.queue.shift()
Shift(q) == [item |-> Head(q), rest |-> Tail(q)]

\* faulty variant: the decrement sits in the try block: skipped when the scan throws
ProcessingAfterScan_tryOnly(processingNow, failed) ==
  IF failed THEN processingNow ELSE processingNow - 1

\* the finally block's this.processing--
ProcessingAfterScan(processingNow, failed) == processingNow - 1

\* faulty variant: a failing scan settles its item in the catch block and again later
Settle_twice(calls, failed) == IF failed THEN calls + 2 ELSE calls + 1

\* item.resolve(result) in the try block or item.reject(error) in the catch
\* block: calls is the number of settle calls made on the item so far
Settle(calls, failed) == calls + 1

\* faulty variant: a request is admitted only while two slots are free
ProcessNext_sparesSlot(q, p, pcv) ==
  IF CanAdmit(p + 1, Len(q))
  THEN LET s == Shift(q) IN
       /\ queue' = s.rest
       /\ processing' = p + 1
       /\ pc' = [pcv EXCEPT ![s.item] = "hashing"]
       /\ admits' = [admits EXCEPT ![s.item] = @ + 1]
       /\ admitOrder' = Append(admitOrder, s.item)
  ELSE /\ queue' = q
       /\ processing' = p
       /\ pc' = pcv
       /\ UNCHANGED <<admits, admitOrder>>

\* processNext() called with the queue, counter and positions q, p, pcv
ProcessNext(q, p, pcv) ==
  IF CanAdmit(p, Len(q))
  THEN LET s == Shift(q) IN
       /\ queue' = s.rest
       /\ processing' = p + 1
       /\ pc' = [pcv EXCEPT ![s.item] = "hashing"]
       /\ admits' = [admits EXCEPT ![s.item] = @ + 1]
       /\ admitOrder' = Append(admitOrder, s.item)
  ELSE /\ queue' = q
       /\ processing' = p
       /\ pc' = pcv
       /\ UNCHANGED <<admits, admitOrder>>

\* ------------------------------------------------------------------- actions
\* a caller invokes scanImageQueued(imageUrl); it awaits downloadImage
ScanImageQueued(r) ==
  /\ pc[r] = "idle"
  /\ \A r2 \in Req : r2 < r => pc[r2] # "idle"
  /\ pc' = [pc EXCEPT ![r] = "downloading"]
  /\ UNCHANGED <<config, adapter, hashDatabase, queue, processing, scanResult,
                 outcome, settles, admits, addOrder, admitOrder, apiCalls,
                 providerFailed, hashOutcome, providerCalls, imageSize,
                 otherVars>>

\* downloadImage settles; scanImageQueued checks the size and calls
\* detectionQueue.add, which pushes the item and runs processNext
DownloadDone(r, netOk, size) ==
  /\ pc[r] = "downloading"
  /\ imageSize' = [imageSize EXCEPT ![r] = size]
  /\ IF RejectsBeforeQueue(config, netOk, size)
     THEN /\ pc' = [pc EXCEPT ![r] = "done"]
          /\ outcome' = [outcome EXCEPT ![r] = "rejected"]
          /\ UNCHANGED <<queue, processing, admits, addOrder, admitOrder>>
     ELSE /\ addOrder' = Append(addOrder, r)
          /\ ProcessNext(Append(queue, r), processing,
                         [pc EXCEPT ![r] = "queued"])
          /\ UNCHANGED outcome
  /\ UNCHANGED <<config, adapter, hashDatabase, scanResult, settles, apiCalls,
                 providerFailed, hashOutcome, providerCalls, otherVars>>

\* scanImage: checkHashMatch settles for the image of request r
HashStep(r, img) ==
  /\ pc[r] = "hashing"
  /\ LET hashResult == checkHashMatch(img, hashDatabase)
         stage == scanImageHashStage(hashResult) IN
     /\ hashOutcome' = [hashOutcome EXCEPT
                          ![r] = IF hashResult.threw THEN "threw"
                                 ELSE IF hashResult.matched THEN "matched"
                                 ELSE "nomatch"]
     /\ IF stage.next = "classify"
        THEN /\ pc' = [pc EXCEPT ![r] = "classifying"]
             /\ apiCalls' = [apiCalls EXCEPT ![r] = @ + 1]
             /\ UNCHANGED scanResult
        ELSE /\ pc' = [pc EXCEPT ![r] = "returned"]
             /\ scanResult' = [scanResult EXCEPT ![r] = stage.result]
             /\ UNCHANGED apiCalls
  /\ UNCHANGED <<config, adapter, hashDatabase, queue, processing, outcome,
                 settles, admits, addOrder, admitOrder, providerFailed,
                 providerCalls, imageSize, otherVars>>

\* scanImage: detectWithAPI settles and the thresholds are applied
ClassifyStep(r, w) ==
  /\ pc[r] = "classifying"
  /\ pc' = [pc EXCEPT ![r] = "returned"]
  /\ scanResult' = [scanResult EXCEPT
                      ![r] = scanImageDecide(config, Classify(adapter, config, w))]
  /\ providerFailed' = [providerFailed EXCEPT
                          ![r] = ProviderFailure(adapter, config, w)]
  /\ providerCalls' = [providerCalls EXCEPT
                         ![r] = ClassifyCalls(adapter, config)]
  /\ UNCHANGED <<config, adapter, hashDatabase, queue, processing, outcome,
                 settles, admits, addOrder, admitOrder, apiCalls, hashOutcome,
                 imageSize, otherVars>>

\* processNext resumes after its await: resolve or reject the item, then the
\* finally block decrements the counter and calls processNext again
ProcessNextResume(r) ==
  /\ pc[r] = "returned"
  /\ LET failed == scanResult[r].kind = "error" IN
     /\ outcome' = [outcome EXCEPT
                      ![r] = IF failed THEN "rejected" ELSE "resolved"]
     /\ settles' = [settles EXCEPT ![r] = Settle(@, failed)]
     /\ ProcessNext(queue, ProcessingAfterScan(processing, failed),
                    [pc EXCEPT ![r] = "done"])
  /\ UNCHANGED <<config, adapter, hashDatabase, scanResult, addOrder, apiCalls,
                 providerFailed, hashOutcome, providerCalls, imageSize,
                 otherVars>>

\* ------------------------------------------------------------ configurations
ProviderConfigs ==
  [workerUrl : BOOLEAN, workerApiKey : {"", "k1"}, sightengine : BOOLEAN,
   cloudflare : BOOLEAN]

MakeConfig(n, dt, rt, prov) ==
  [maxConcurrentScans |-> n, detectionThreshold |-> dt, reviewThreshold |-> rt,
   imageMaxSizeMB |-> DefaultImageMaxSizeMB,
   workerUrl |-> prov.workerUrl, workerApiKey |-> prov.workerApiKey,
   sightengine |-> prov.sightengine, cloudflare |-> prov.cloudflare]

KnownRow(h, a) == [hash |-> h, active |-> a]

\* no hash-store operation has run
NoHashOp == [op |-> "none"]

\* the worker has served no request
NoWorkerOp == [op |-> "none"]

\* the guilds the bot serves: two are enough for an offense in one guild to
\* reach, or not reach, another
Guilds == {1, 2}
Offenses == 1..MaxOffenses

\* no User row
NoUser == [exists |-> FALSE, offenseCount |-> 0, globallyBanned |-> FALSE]

\* a flagged detection that has not arrived
NoOffense == [pc |-> "idle", guild |-> 0, called |-> FALSE, observed |-> 0,
              level |-> 0, result |-> "-", notified |-> FALSE]

\* no decision yet; a decision records the operation, what it returned, what
\* it was aimed at, the guilds it tried to ban in and the guild joined
NoDecision == [op |-> "none", ok |-> FALSE, target |-> "-", attempted |-> {},
               guild |-> 0]

\* processImageAttachment has not dealt with the scan yet: branch is the path
\* it takes, reviews the number of ModeratorReview rows it created, threw
\* whether the handler it called ended in its catch block
NoAttachment == [branch |-> "-", reviews |-> 0, threw |-> FALSE]

\* no offense was handled and no moderator has acted
EscIdle ==
  /\ user = NoUser
  /\ bans = <<>>
  /\ offense = [o \in Offenses |-> NoOffense]
  /\ discordBans = {}
  /\ lastDecision = NoDecision
  /\ moderatorReviews = 0
  /\ discordTimeouts = {}
  /\ attachment = [r \in Req |-> NoAttachment]
  /\ deleted = {}

\* everything outside the scheduler and the scan chain is at rest
OtherIdle ==
  /\ hashOp = NoHashOp
  /\ workerOp = NoWorkerOp
  /\ EscIdle
  /\ guildCfg = [g \in Guilds |-> [autoDelete |-> TRUE, autoBan |-> TRUE]]
  /\ manager = "ban"

InitRequests ==
  /\ pc = [r \in Req |-> "idle"]
  /\ queue = <<>>
  /\ processing = 0
  /\ scanResult = [r \in Req |-> NoResult]
  /\ outcome = [r \in Req |-> "pending"]
  /\ settles = [r \in Req |-> 0]
  /\ admits = [r \in Req |-> 0]
  /\ addOrder = <<>>
  /\ admitOrder = <<>>
  /\ apiCalls = [r \in Req |-> 0]
  /\ providerFailed = [r \in Req |-> "-"]
  /\ hashOutcome = [r \in Req |-> "-"]
  /\ providerCalls = [r \in Req |-> <<>>]
  /\ imageSize = [r \in Req |-> -1]

\* ---------------------------------------------------- scheduler specification
\* default thresholds, every maxConcurrentScans in 0..MaxN (parseInt accepts 0)
SchedScores == {90}
SchedWorlds == {[BaseWorld EXCEPT !.score = s] : s \in SchedScores}
SchedImages == {[decodable |-> TRUE, hash |-> Zeros(HashLen)],
                [decodable |-> TRUE, hash |-> Ones(HashLen)], Corrupt}
ImageSizes == {0, DefaultImageMaxSizeMB, DefaultImageMaxSizeMB + 1}

\* downloads of the scheduler runs: an image at the limit, one above it, and
\* one above it whose download also fails
SchedDownloads ==
  {[netOk |-> TRUE, size |-> DefaultImageMaxSizeMB],
   [netOk |-> TRUE, size |-> DefaultImageMaxSizeMB + 1],
   [netOk |-> FALSE, size |-> DefaultImageMaxSizeMB + 1]}

Init ==
  /\ \E n \in 0..MaxN :
       config = MakeConfig(n, DefaultDetectionThreshold, DefaultReviewThreshold,
                           [workerUrl |-> TRUE, workerApiKey |-> "k1",
                            sightengine |-> FALSE, cloudflare |-> FALSE])
  /\ adapter = "url"
  /\ hashDatabase = <<KnownRow(Zeros(HashLen), TRUE)>>
  /\ InitRequests
  /\ OtherIdle

Next ==
  \/ \E r \in Req : ScanImageQueued(r)
  \/ \E r \in Req, d \in SchedDownloads : DownloadDone(r, d.netOk, d.size)
  \/ \E r \in Req, img \in SchedImages : HashStep(r, img)
  \/ \E r \in Req, w \in SchedWorlds : ClassifyStep(r, w)
  \/ \E r \in Req : ProcessNextResume(r)

Spec == Init /\ [][Next]_vars

\* --------------------------------------------------- scan chain specification
\* one request through scanImageQueued, over every provider set-up, threshold
\* pair and confidence; the thresholds are not validated, so any pair occurs
Percent == 0..100
ThresholdChoices == {0, 70, 80, 85, 90}
SubScores == {0, 70, 85, 86}
ScanWorlds == Worlds(Percent, SubScores)

ScanSetups ==
  { [adapter |-> "url", prov |-> p] :
      p \in [workerUrl : BOOLEAN, workerApiKey : {"", "k1"},
             sightengine : BOOLEAN, cloudflare : {FALSE}] }
  \cup
  { [adapter |-> "buffer", prov |-> p] :
      p \in [workerUrl : {FALSE}, workerApiKey : {""},
             sightengine : BOOLEAN, cloudflare : BOOLEAN] }

ScanDatabases ==
  { <<KnownRow(Zeros(HashLen), TRUE)>>,
    <<KnownRow(Zeros(HashLen), FALSE), KnownRow(Ones(HashLen), TRUE)>> }

ScanInit ==
  /\ \E dt \in ThresholdChoices, rt \in ThresholdChoices, su \in ScanSetups :
       /\ config = MakeConfig(1, dt, rt, su.prov)
       /\ adapter = su.adapter
  /\ hashDatabase \in ScanDatabases
  /\ InitRequests
  /\ OtherIdle

ScanNext ==
  \/ ScanImageQueued(1)
  \/ \E netOk \in BOOLEAN, size \in ImageSizes : DownloadDone(1, netOk, size)
  \/ \E img \in Images : HashStep(1, img)
  \/ \E w \in ScanWorlds : ClassifyStep(1, w)
  \/ ProcessNextResume(1)

ScanSpec == ScanInit /\ [][ScanNext]_vars

\* fairness: every admitted scan eventually completes or fails, and the
\* continuation of processNext runs once its awaited scan has settled
ScanFairness ==
  \A r \in Req :
    /\ WF_vars(\E img \in SchedImages : HashStep(r, img))
    /\ WF_vars(\E w \in SchedWorlds : ClassifyStep(r, w))
    /\ WF_vars(ProcessNextResume(r))

LiveSpec == Init /\ [][Next]_vars /\ ScanFairness

\* --------------------------------------------------- hash store specification
\* The hash store on its own: moderators add and deactivate known hashes,
\* images are checked against it, and the similarity function is applied to
\* pairs of hash strings. A database call can fail (the adapters rethrow).

\* hash strings a moderator can register: any string, here a one-character
\* hash, two near-identical full hashes and one of another length
KnownChoices == {<<1>>, Zeros(HashLen), FlipFirst(Zeros(HashLen), 1),
                 Zeros(HashLen + 1)}

\* the strings the similarity function is applied to, the empty one included
HashStrings == KnownChoices \cup {<<>>, <<0>>}

HashImages == {[decodable |-> TRUE, hash |-> Zeros(HashLen)],
               [decodable |-> TRUE, hash |-> Ones(HashLen)], Corrupt}

AddKnownHash(hash, dbOk) ==
  /\ Len(hashDatabase) < MaxRows
  /\ hashDatabase' = IF dbOk THEN addKnownHash(hashDatabase, hash)
                     ELSE hashDatabase
  /\ hashOp' = [op |-> "add", hash |-> hash, threw |-> ~dbOk]
  /\ UNCHANGED <<schedVars, workerOp, escVars>>

RemoveHash(hash, dbOk) ==
  /\ hashDatabase' = IF dbOk THEN removeHash(hashDatabase, hash)
                     ELSE hashDatabase
  /\ hashOp' = [op |-> "remove", hash |-> hash, threw |-> ~dbOk]
  /\ UNCHANGED <<schedVars, workerOp, escVars>>

CheckHashMatch(img) ==
  /\ hashOp' = [op |-> "check", image |-> img,
                result |-> checkHashMatch(img, hashDatabase)]
  /\ UNCHANGED <<hashDatabase, schedVars, workerOp, escVars>>

Similarity(hash1, hash2) ==
  /\ hashOp' = [op |-> "similarity", hash1 |-> hash1, hash2 |-> hash2,
                result |-> calculateHammingDistance(hash1, hash2)]
  /\ UNCHANGED <<hashDatabase, schedVars, workerOp, escVars>>

HashInit ==
  /\ config = MakeConfig(1, DefaultDetectionThreshold, DefaultReviewThreshold,
                         [workerUrl |-> TRUE, workerApiKey |-> "k1",
                          sightengine |-> FALSE, cloudflare |-> FALSE])
  /\ adapter = "url"
  /\ hashDatabase = <<>>
  /\ InitRequests
  /\ OtherIdle

HashNext ==
  \/ \E h \in KnownChoices, dbOk \in BOOLEAN : AddKnownHash(h, dbOk)
  \/ \E h \in KnownChoices, dbOk \in BOOLEAN : RemoveHash(h, dbOk)
  \/ \E img \in HashImages : CheckHashMatch(img)
  \/ \E h1 \in HashStrings, h2 \in HashStrings : Similarity(h1, h2)

HashSpec == HashInit /\ [][HashNext]_vars

\* --------------------------------------------------- escalation specification
\* One user, the flagged detections attributed to them in any guild, the
\* moderators' decisions on their Ban rows and their joins. Every await of
\* handleFlaggedContent and handleUserOffense is a step boundary, so calls
\* for the same user interleave there.

\* faulty variant: create overwrites an existing row
userCreate_upsert(u) ==
  [threw |-> FALSE,
   row |-> [exists |-> TRUE, offenseCount |-> 0, globallyBanned |-> FALSE]]

\* prisma.user.create with offenseCount 0; the id is the primary key, so
\* creating a row that exists fails
userCreate(u) ==
  IF u.exists THEN Threw
  ELSE [threw |-> FALSE,
        row |-> [exists |-> TRUE, offenseCount |-> 0, globallyBanned |-> FALSE]]

\* prisma.user.update({data: {offenseCount: {increment: 1}}}): one atomic
\* statement that returns the updated row
userIncrement(u) == [u EXCEPT !.offenseCount = @ + 1]

\* handleUserOffense's branch on the count the update returned
OffenseLevel(count) == IF count = 1 THEN 1 ELSE 2

BanRow(guild, level, banType, active) ==
  [guild |-> guild, level |-> level, banType |-> banType, active |-> active]

\* handleFlaggedContent after message.delete: the detection row is updated,
\* then handleUserOffense is called if the guild has autoBan
AfterDelete(o, g) ==
  IF guildCfg[g].autoBan
  THEN [offense[o] EXCEPT !.pc = "finding", !.guild = g, !.called = TRUE]
  ELSE [offense[o] EXCEPT !.pc = "done", !.guild = g, !.result = "no-ban"]

\* handleFlaggedContent up to its first await: message.delete if the guild
\* has autoDelete
handleFlaggedContent(o, g) ==
  IF guildCfg[g].autoDelete
  THEN [offense[o] EXCEPT !.pc = "deleting", !.guild = g]
  ELSE AfterDelete(o, g)

\* processImageAttachment got flagged=true, requiresReview=false for a message
\* of the user in guild g and calls handleFlaggedContent
FlaggedDetection(o, g) ==
  /\ offense[o].pc = "idle"
  /\ \A o2 \in Offenses : o2 < o => offense[o2].pc # "idle"
  /\ offense' = [offense EXCEPT ![o] = handleFlaggedContent(o, g)]
  /\ UNCHANGED <<user, bans, escRest, discordBans, lastDecision, detectVars>>

\* message.delete settles; a failure ends handleFlaggedContent in its catch
MessageDelete(o, discordOk) ==
  /\ offense[o].pc = "deleting"
  /\ offense' = [offense EXCEPT
                   ![o] = IF discordOk THEN AfterDelete(o, @.guild)
                          ELSE [@ EXCEPT !.pc = "done", !.result = "threw"]]
  /\ deleted' = IF discordOk THEN deleted \cup {o} ELSE deleted
  /\ UNCHANGED <<user, bans, guildCfg, manager, moderatorReviews,
                 discordTimeouts, attachment, discordBans, lastDecision,
                 detectVars>>

\* handleUserOffense: prisma.user.findUnique settles
FindUser(o) ==
  /\ offense[o].pc = "finding"
  /\ offense' = [offense EXCEPT
                   ![o].pc = IF user.exists THEN "updating" ELSE "creating"]
  /\ UNCHANGED <<user, bans, escRest, discordBans, lastDecision, detectVars>>

\* handleUserOffense: prisma.user.create settles; a failure is rethrown
CreateUser(o) ==
  /\ offense[o].pc = "creating"
  /\ LET created == userCreate(user) IN
     IF created.threw
     THEN /\ offense' = [offense EXCEPT ![o].pc = "done", ![o].result = "threw"]
          /\ UNCHANGED user
     ELSE /\ offense' = [offense EXCEPT ![o].pc = "updating"]
          /\ user' = created.row
  /\ UNCHANGED <<bans, escRest, discordBans, lastDecision, detectVars>>

\* handleUserOffense: the increment settles and returns the new count
IncrementUser(o) ==
  /\ offense[o].pc = "updating"
  /\ user' = userIncrement(user)
  /\ offense' = [offense EXCEPT ![o].pc = "sanctioning",
                                 ![o].observed = user'.offenseCount,
                                 ![o].level = OffenseLevel(user'.offenseCount)]
  /\ UNCHANGED <<bans, escRest, discordBans, lastDecision, detectVars>>

\* what one sanction function did: the guilds it banned in, the guilds it
\* timed the member out in, the Ban / Timeout rows it created, the number of
\* ModeratorReview rows it created, whether the moderation channel was sent a
\* message, and how it returned
SanctionEffect(banned, timedOut, rows, reviews, notified, result) ==
  [banned |-> banned, timedOut |-> timedOut, rows |-> rows,
   reviews |-> reviews, notified |-> notified, result |-> result]

\* faulty variant: the ban is reported as done without a Ban row
executeServerBan_noRecord(g, discordOk, dbOk) ==
  IF ~discordOk THEN SanctionEffect({}, {}, <<>>, 0, FALSE, "failed")
  ELSE IF ~dbOk THEN SanctionEffect({g}, {}, <<>>, 0, FALSE, "failed")
  ELSE SanctionEffect({g}, {}, <<>>, 0, FALSE, "sanctioned")

\* banManager executeServerBan: guild.members.ban, then prisma.ban.create; a
\* failure of either is caught and returned as success false
executeServerBan(g, discordOk, dbOk) ==
  IF ~discordOk THEN SanctionEffect({}, {}, <<>>, 0, FALSE, "failed")
  ELSE IF ~dbOk THEN SanctionEffect({g}, {}, <<>>, 0, FALSE, "failed")
  ELSE SanctionEffect({g}, {}, <<BanRow(g, 1, "server", TRUE)>>, 0, FALSE,
                      "sanctioned")

\* faulty variant: the later offense is queued and banned locally as well
queueForGlobalBan_alsoBans(g, dbOk) ==
  IF ~dbOk THEN SanctionEffect({}, {}, <<>>, 0, FALSE, "threw")
  ELSE SanctionEffect({g}, {}, <<BanRow(g, 2, "global_pending", FALSE)>>, 0,
                      FALSE, "queued")

\* banManager queueForGlobalBan: one prisma.ban.create, a failure is rethrown
queueForGlobalBan(g, dbOk) ==
  IF ~dbOk THEN SanctionEffect({}, {}, <<>>, 0, FALSE, "threw")
  ELSE SanctionEffect({}, {}, <<BanRow(g, 2, "global_pending", FALSE)>>, 0,
                      FALSE, "queued")

\* faulty variant: the member is timed out in every guild
executeServerTimeout_allGuilds(g, discordOk, dbOk, notifyOk) ==
  IF ~discordOk THEN SanctionEffect({}, {}, <<>>, 0, FALSE, "failed")
  ELSE IF ~dbOk THEN SanctionEffect({}, Guilds, <<>>, 0, FALSE, "failed")
  ELSE SanctionEffect({}, Guilds, <<BanRow(g, 1, "server", TRUE)>>, 0,
                      notifyOk, "sanctioned")

\* timeoutManager executeServerTimeout: member.timeout, prisma.timeout.create,
\* then notifyModerationServer, which swallows its own failures
executeServerTimeout(g, discordOk, dbOk, notifyOk) ==
  IF ~discordOk THEN SanctionEffect({}, {}, <<>>, 0, FALSE, "failed")
  ELSE IF ~dbOk THEN SanctionEffect({}, {g}, <<>>, 0, FALSE, "failed")
  ELSE SanctionEffect({}, {g}, <<BanRow(g, 1, "server", TRUE)>>, 0, notifyOk,
                      "sanctioned")

\* timeoutManager queueForReview: prisma.timeout.create, then
\* client.guilds.fetch (discordOk) whose failure is rethrown with the row
\* already created, then notifyModerationServer
queueForReview(g, discordOk, dbOk, notifyOk) ==
  IF ~dbOk THEN SanctionEffect({}, {}, <<>>, 0, FALSE, "threw")
  ELSE IF ~discordOk
  THEN SanctionEffect({}, {}, <<BanRow(g, 2, "pending_review", FALSE)>>, 0,
                      FALSE, "threw")
  ELSE SanctionEffect({}, {}, <<BanRow(g, 2, "pending_review", FALSE)>>, 0,
                      notifyOk, "queued")

\* handleUserOffense's branch on the count it read, in either handler module
sanctionFor(mgr, level, g, discordOk, dbOk, notifyOk) ==
  IF mgr = "ban"
  THEN IF level = 1 THEN executeServerBan(g, discordOk, dbOk)
       ELSE queueForGlobalBan(g, dbOk)
  ELSE IF level = 1 THEN executeServerTimeout(g, discordOk, dbOk, notifyOk)
       ELSE queueForReview(g, discordOk, dbOk, notifyOk)

\* the sanction function handleUserOffense chose settles
Sanction(o, discordOk, dbOk, notifyOk) ==
  /\ offense[o].pc = "sanctioning"
  /\ LET e == sanctionFor(manager, offense[o].level, offense[o].guild,
                          discordOk, dbOk, notifyOk) IN
     /\ discordBans' = discordBans \cup e.banned
     /\ discordTimeouts' = discordTimeouts \cup e.timedOut
     /\ bans' = bans \o e.rows
     /\ moderatorReviews' = moderatorReviews + e.reviews
     /\ offense' = [offense EXCEPT ![o].pc = "done",
                                   ![o].result = e.result,
                                   ![o].notified = e.notified]
  /\ UNCHANGED <<user, guildCfg, manager, attachment, deleted, lastDecision,
                 detectVars>>

\* the banType a handler module gives a queued, an approved and a rejected row
PendingType(mgr) == IF mgr = "ban" THEN "global_pending" ELSE "pending_review"
ApprovedType(mgr) == IF mgr = "ban" THEN "global" ELSE "global_approved"
RejectedType == "global_rejected"

\* the rows of the given banType
RowsOfType(rows, t) == {i \in 1..Len(rows) : rows[i].banType = t}

\* what a decision is aimed at: banManager decides the row banId,
\* timeoutManager decides all rows of the user
Target(mgr, rows, banId) ==
  IF mgr = "ban"
  THEN IF banId > Len(rows) THEN "other"
       ELSE IF rows[banId].banType = PendingType(mgr) THEN "pending"
       ELSE IF rows[banId].banType = RejectedType THEN "rejected"
       ELSE "other"
  ELSE IF RowsOfType(rows, PendingType(mgr)) # {} THEN "pending"
       ELSE IF RowsOfType(rows, RejectedType) # {} THEN "rejected"
       ELSE "other"

\* every row of banType from becomes a row of banType to
updateMany(rows, from, to, active) ==
  [i \in 1..Len(rows) |->
     IF rows[i].banType = from
     THEN [rows[i] EXCEPT !.banType = to, !.active = active]
     ELSE rows[i]]

\* faulty variant: the approval never marks the user globally banned
approveGlobalBan_noUserFlag(u, rows, banId, failAt, reached) ==
  LET valid == Target("ban", rows, banId) = "pending"
      rowDone == valid /\ failAt # "ban.update"
      userDone == rowDone /\ failAt # "user.update"
  IN [user |-> u,
      bans |-> IF rowDone
               THEN [rows EXCEPT ![banId].banType = ApprovedType("ban"),
                                 ![banId].active = TRUE]
               ELSE rows,
      banned |-> IF userDone THEN reached ELSE {},
      attempted |-> IF userDone THEN Guilds ELSE {},
      ok |-> userDone]

\* banManager approveGlobalBan(banId): the row must exist and be
\* global_pending; then the row, then the user are updated, then every guild
\* gets a ban attempt. failAt names the call that fails, reached the guilds
\* whose ban attempt succeeds
approveGlobalBan(u, rows, banId, failAt, reached) ==
  LET valid == Target("ban", rows, banId) = "pending"
      rowDone == valid /\ failAt # "ban.update"
      userDone == rowDone /\ failAt # "user.update"
  IN [user |-> IF userDone THEN [u EXCEPT !.globallyBanned = TRUE] ELSE u,
      bans |-> IF rowDone
               THEN [rows EXCEPT ![banId].banType = ApprovedType("ban"),
                                 ![banId].active = TRUE]
               ELSE rows,
      banned |-> IF userDone THEN reached ELSE {},
      attempted |-> IF userDone THEN Guilds ELSE {},
      ok |-> userDone]

\* faulty variant: the first failing ban attempt ends the fan-out
approveGlobalBan_timeoutManager_abortOnFailure(u, rows, failAt, reached) ==
  LET userDone == u.exists /\ failAt # "user.update"
      rowsDone == userDone /\ failAt # "ban.update"
  IN [user |-> IF userDone THEN [u EXCEPT !.globallyBanned = TRUE] ELSE u,
      bans |-> IF rowsDone
               THEN updateMany(rows, PendingType("timeout"),
                               ApprovedType("timeout"), TRUE)
               ELSE rows,
      banned |-> IF rowsDone /\ reached = Guilds THEN reached ELSE {},
      attempted |-> IF ~rowsDone THEN {}
                    ELSE IF reached = Guilds THEN Guilds
                    ELSE {g \in Guilds : \A g2 \in Guilds \ reached : g <= g2},
      ok |-> rowsDone /\ reached = Guilds /\ failAt # "notify"]

\* timeoutManager approveGlobalBan(userId): the user is updated first (and
\* must exist), then all pending_review rows, then every guild gets a ban
\* attempt, then the moderation channel is sent a message inside the same try
approveGlobalBan_timeoutManager(u, rows, failAt, reached) ==
  LET userDone == u.exists /\ failAt # "user.update"
      rowsDone == userDone /\ failAt # "ban.update"
  IN [user |-> IF userDone THEN [u EXCEPT !.globallyBanned = TRUE] ELSE u,
      bans |-> IF rowsDone
               THEN updateMany(rows, PendingType("timeout"),
                               ApprovedType("timeout"), TRUE)
               ELSE rows,
      banned |-> IF rowsDone THEN reached ELSE {},
      attempted |-> IF rowsDone THEN Guilds ELSE {},
      ok |-> rowsDone /\ failAt # "notify"]

\* a moderator approves
ApproveGlobalBan(banId, failAt, reached) ==
  LET e == IF manager = "ban"
           THEN approveGlobalBan(user, bans, banId, failAt, reached)
           ELSE approveGlobalBan_timeoutManager(user, bans, failAt, reached)
  IN
  /\ bans' = e.bans
  /\ user' = e.user
  /\ discordBans' = discordBans \cup e.banned
  /\ lastDecision' = [op |-> "approve", ok |-> e.ok,
                      target |-> Target(manager, bans, banId),
                      attempted |-> e.attempted, guild |-> 0]
  /\ UNCHANGED <<escRest, offense, detectVars>>

\* faulty variant: the rejection reports success and leaves the row pending
rejectGlobalBan_keepsPending(rows, banId, failAt) ==
  LET rowDone == banId <= Len(rows) /\ failAt # "ban.update" IN
  [bans |-> rows, ok |-> rowDone]

\* banManager rejectGlobalBan(banId): the row is updated whatever its banType
rejectGlobalBan(rows, banId, failAt) ==
  LET rowDone == banId <= Len(rows) /\ failAt # "ban.update" IN
  [bans |-> IF rowDone
            THEN [rows EXCEPT ![banId].banType = RejectedType,
                              ![banId].active = FALSE]
            ELSE rows,
   ok |-> rowDone]

\* faulty variant: the rejection rewrites every row of the user
rejectGlobalBan_timeoutManager_allRows(rows, failAt) ==
  LET rowsDone == failAt # "ban.update" IN
  [bans |-> IF rowsDone
            THEN [i \in 1..Len(rows) |->
                    [rows[i] EXCEPT !.banType = RejectedType,
                                    !.active = FALSE]]
            ELSE rows,
   ok |-> rowsDone /\ failAt # "notify"]

\* timeoutManager rejectGlobalBan(userId): all pending_review rows are
\* updated, then the moderation channel is sent a message inside the same try
rejectGlobalBan_timeoutManager(rows, failAt) ==
  LET rowsDone == failAt # "ban.update" IN
  [bans |-> IF rowsDone
            THEN updateMany(rows, PendingType("timeout"), RejectedType, FALSE)
            ELSE rows,
   ok |-> rowsDone /\ failAt # "notify"]

\* a moderator rejects
RejectGlobalBan(banId, failAt) ==
  LET e == IF manager = "ban" THEN rejectGlobalBan(bans, banId, failAt)
           ELSE rejectGlobalBan_timeoutManager(bans, failAt)
  IN
  /\ bans' = e.bans
  /\ lastDecision' = [op |-> "reject", ok |-> e.ok,
                      target |-> Target(manager, bans, banId),
                      attempted |-> {}, guild |-> 0]
  /\ UNCHANGED <<user, escRest, offense, discordBans, detectVars>>

\* faulty variant: every known user is banned on joining
checkAndEnforceGlobalBan_anyUser(u, g, discordOk) ==
  LET enforce == u.exists IN
  [banned |-> IF enforce /\ discordOk THEN {g} ELSE {},
   attempted |-> IF enforce THEN {g} ELSE {},
   ok |-> enforce /\ discordOk]

\* checkAndEnforceGlobalBan(userId, guild), the same in both handler modules:
\* a user marked globally banned is banned in the guild
checkAndEnforceGlobalBan(u, g, discordOk) ==
  LET enforce == u.exists /\ u.globallyBanned IN
  [banned |-> IF enforce /\ discordOk THEN {g} ELSE {},
   attempted |-> IF enforce THEN {g} ELSE {},
   ok |-> enforce /\ discordOk]

\* GuildMemberAdd: checkAndEnforceGlobalBan for the user joining guild g
MemberJoin(g, discordOk) ==
  LET e == checkAndEnforceGlobalBan(user, g, discordOk) IN
  /\ discordBans' = discordBans \cup e.banned
  /\ lastDecision' = [op |-> "join", ok |-> e.ok,
                      target |-> IF user.globallyBanned THEN "banned"
                                 ELSE "clean",
                      attempted |-> e.attempted, guild |-> g]
  /\ UNCHANGED <<user, bans, escRest, offense, detectVars>>

\* guild 1 runs every setting; the other guilds delete and ban
GuildSettings ==
  {cfg \in [Guilds -> [autoDelete : BOOLEAN, autoBan : BOOLEAN]] :
     \A g \in Guilds : g > 1 => cfg[g].autoDelete /\ cfg[g].autoBan}

ApprovalFailures == {"none", "ban.update", "user.update"}

\* the fan-out of an approval bans in every guild, or fails in guild 1
ReachedChoices == {Guilds, Guilds \ {1}}

EscInit ==
  /\ config = MakeConfig(1, DefaultDetectionThreshold, DefaultReviewThreshold,
                         [workerUrl |-> TRUE, workerApiKey |-> "k1",
                          sightengine |-> FALSE, cloudflare |-> FALSE])
  /\ adapter = "url"
  /\ hashDatabase = <<>>
  /\ InitRequests
  /\ hashOp = NoHashOp
  /\ workerOp = NoWorkerOp
  /\ EscIdle
  /\ guildCfg \in GuildSettings
  /\ manager = "ban"

EscNext ==
  \/ \E o \in Offenses, g \in Guilds : FlaggedDetection(o, g)
  \/ \E o \in Offenses, discordOk \in BOOLEAN : MessageDelete(o, discordOk)
  \/ \E o \in Offenses : FindUser(o)
  \/ \E o \in Offenses : CreateUser(o)
  \/ \E o \in Offenses : IncrementUser(o)
  \/ \E o \in Offenses, discordOk \in BOOLEAN, dbOk \in BOOLEAN :
       Sanction(o, discordOk, dbOk, TRUE)
  \/ \E banId \in Offenses, failAt \in ApprovalFailures :
       ApproveGlobalBan(banId, failAt, Guilds)
  \/ \E banId \in Offenses, failAt \in {"none", "ban.update"} :
       RejectGlobalBan(banId, failAt)
  \/ \E g \in Guilds, discordOk \in BOOLEAN : MemberJoin(g, discordOk)

EscSpec == EscInit /\ [][EscNext]_vars

\* ------------------------------------------- moderation, either handler module
\* the escalation ladder and the moderator decisions under banManager and
\* under timeoutManager, with every call of a decision allowed to fail; the
\* flagged detections of the user arrive one after the other
DecisionFailures == {"none", "ban.update", "user.update", "notify"}

\* every earlier flagged detection has been handled to its end
EarlierDone(o) == \A o2 \in Offenses : o2 < o => offense[o2].pc = "done"

ModInit ==
  /\ config = MakeConfig(1, DefaultDetectionThreshold, DefaultReviewThreshold,
                         [workerUrl |-> TRUE, workerApiKey |-> "k1",
                          sightengine |-> FALSE, cloudflare |-> FALSE])
  /\ adapter = "url"
  /\ hashDatabase = <<>>
  /\ InitRequests
  /\ hashOp = NoHashOp
  /\ workerOp = NoWorkerOp
  /\ EscIdle
  /\ guildCfg = [g \in Guilds |-> [autoDelete |-> TRUE, autoBan |-> TRUE]]
  /\ manager \in {"ban", "timeout"}

ModNext ==
  \/ \E o \in Offenses, g \in Guilds : EarlierDone(o) /\ FlaggedDetection(o, g)
  \/ \E o \in Offenses, discordOk \in BOOLEAN : MessageDelete(o, discordOk)
  \/ \E o \in Offenses : FindUser(o)
  \/ \E o \in Offenses : CreateUser(o)
  \/ \E o \in Offenses : IncrementUser(o)
  \/ \E o \in Offenses, discordOk \in BOOLEAN, dbOk \in BOOLEAN,
        notifyOk \in BOOLEAN : Sanction(o, discordOk, dbOk, notifyOk)
  \/ \E banId \in Offenses, failAt \in DecisionFailures,
        reached \in ReachedChoices : ApproveGlobalBan(banId, failAt, reached)
  \/ \E banId \in Offenses, failAt \in DecisionFailures \ {"user.update"} :
       RejectGlobalBan(banId, failAt)
  \/ \E g \in Guilds, discordOk \in BOOLEAN : MemberJoin(g, discordOk)

ModSpec == ModInit /\ [][ModNext]_vars

\* faulty variant: a scan that failed is treated as flagged
attachmentBranch_failClosed(settled, result, dbOk) ==
  IF settled = "rejected" THEN "flagged"
  ELSE IF ~dbOk THEN "record-failed"
  ELSE IF result.flagged /\ ~result.requiresReview THEN "flagged"
  ELSE IF result.requiresReview THEN "review"
  ELSE "pass"

\* ------------------------------------------------------- message handling
\* processImageAttachment: which way it goes once scanImageQueued has settled
\* and prisma.detection.create was awaited
attachmentBranch(settled, result, dbOk) ==
  IF settled = "rejected" THEN "scan-failed"
  ELSE IF ~dbOk THEN "record-failed"
  ELSE IF result.flagged /\ ~result.requiresReview THEN "flagged"
  ELSE IF result.requiresReview THEN "review"
  ELSE "pass"

\* faulty variant: the reaction is added and no ModeratorReview row is created
handleReviewRequired_noRecord(reactOk, dbOk) ==
  IF reactOk /\ dbOk THEN [reviews |-> 0, threw |-> FALSE]
  ELSE [reviews |-> 0, threw |-> TRUE]

\* handleReviewRequired: message.react, then the detection row is looked up
\* and one ModeratorReview row with status pending is created; a failure of
\* either call ends in the catch block
handleReviewRequired(reactOk, dbOk) ==
  IF reactOk /\ dbOk THEN [reviews |-> 1, threw |-> FALSE]
  ELSE [reviews |-> 0, threw |-> TRUE]

\* processImageAttachment resumes after await scanImageQueued for the
\* attachment of request r, posted by the user in guild g
ProcessImageAttachment(r, g, dbOk, reactOk, reviewOk) ==
  /\ pc[r] = "done"
  /\ outcome[r] # "pending"
  /\ attachment[r].branch = "-"
  /\ LET branch == attachmentBranch(outcome[r], scanResult[r], dbOk)
         made == IF branch = "review"
                 THEN handleReviewRequired(reactOk, reviewOk)
                 ELSE [reviews |-> 0, threw |-> FALSE]
     IN /\ attachment' = [attachment EXCEPT
                            ![r] = [branch |-> branch, reviews |-> made.reviews,
                                    threw |-> made.threw]]
        /\ moderatorReviews' = moderatorReviews + made.reviews
        /\ offense' = IF branch = "flagged"
                      THEN [offense EXCEPT ![r] = handleFlaggedContent(r, g)]
                      ELSE offense
  /\ UNCHANGED <<user, bans, guildCfg, manager, discordBans, discordTimeouts,
                 deleted, lastDecision, detectVars>>

\* the classifier flags (90), asks for review (75) or passes (10), or its call
\* fails
MsgWorlds == {[BaseWorld EXCEPT !.score = s] : s \in {10, 75, 90}}
                \cup {[BaseWorld EXCEPT !.net = FALSE]}

MsgInit ==
  /\ config = MakeConfig(1, DefaultDetectionThreshold, DefaultReviewThreshold,
                         [workerUrl |-> TRUE, workerApiKey |-> "k1",
                          sightengine |-> FALSE, cloudflare |-> FALSE])
  /\ adapter = "url"
  /\ hashDatabase = <<KnownRow(Zeros(HashLen), TRUE)>>
  /\ InitRequests
  /\ hashOp = NoHashOp
  /\ workerOp = NoWorkerOp
  /\ EscIdle
  /\ guildCfg = [g \in Guilds |-> [autoDelete |-> TRUE, autoBan |-> TRUE]]
  /\ manager = "ban"

MsgNext ==
  \/ \E r \in Offenses : ScanImageQueued(r)
  \/ \E r \in Offenses, d \in SchedDownloads : DownloadDone(r, d.netOk, d.size)
  \/ \E r \in Offenses, img \in SchedImages : HashStep(r, img)
  \/ \E r \in Offenses, w \in MsgWorlds : ClassifyStep(r, w)
  \/ \E r \in Offenses : ProcessNextResume(r)
  \/ \E r \in Offenses, g \in Guilds, dbOk \in BOOLEAN, reactOk \in BOOLEAN,
        reviewOk \in BOOLEAN : ProcessImageAttachment(r, g, dbOk, reactOk,
                                                      reviewOk)
  \/ \E o \in Offenses, discordOk \in BOOLEAN : MessageDelete(o, discordOk)
  \/ \E o \in Offenses : FindUser(o)
  \/ \E o \in Offenses : CreateUser(o)
  \/ \E o \in Offenses : IncrementUser(o)
  \/ \E o \in Offenses, discordOk \in BOOLEAN, dbOk \in BOOLEAN :
       Sanction(o, discordOk, dbOk, TRUE)

MsgSpec == MsgInit /\ [][MsgNext]_vars


\* ------------------------------------------------------------ worker endpoint
\* requests of any method, without a key, with the configured one or with
\* another one, with and without an imageUrl in the body
WorkerRequests ==
  [method : {"GET", "POST", "OPTIONS", "PUT", "DELETE"},
   apiKey : {"", "k1", "k2"}, imageUrl : BOOLEAN]

\* the worker's API_KEY secret (unset, k1 or k2), an image that can or cannot
\* be fetched, a score below and above the detection mark
WorkerWorlds ==
  {[BaseWorld EXCEPT !.envKey = k, !.img = i, !.score = sc] :
     k \in {"", "k1", "k2"}, i \in BOOLEAN, sc \in {10, 90}}

\* the worker serves one request
WorkerRequest(request, w) ==
  /\ workerOp' = [op |-> "fetch", request |-> request, world |-> w,
                  response |-> WorkerFetch(request, w)]
  /\ UNCHANGED <<schedVars, hashDatabase, hashOp, escVars>>

WorkerInit ==
  /\ config = MakeConfig(1, DefaultDetectionThreshold, DefaultReviewThreshold,
                         [workerUrl |-> TRUE, workerApiKey |-> "k1",
                          sightengine |-> FALSE, cloudflare |-> FALSE])
  /\ adapter = "url"
  /\ hashDatabase = <<>>
  /\ InitRequests
  /\ OtherIdle

WorkerNext ==
  \E request \in WorkerRequests, w \in WorkerWorlds : WorkerRequest(request, w)

WorkerSpec == WorkerInit /\ [][WorkerNext]_vars

\* --------------------------------------------------------------------- claims
InSeq(x, seq) == \E i \in 1..Len(seq) : seq[i] = x
IndexOf(x, seq) == CHOOSE i \in 1..Len(seq) : seq[i] = x

\* admitted by processNext, processNext not yet past its finally block
InFlight == {r \in Req : pc[r] \in {"hashing", "classifying", "returned"}}

\* C1: the number of scans admitted by processNext and not yet completed never
\* exceeds the configured maxConcurrentScans
C1_BoundedConcurrency == Cardinality(InFlight) <= config.maxConcurrentScans

\* more requests than slots: every slot is taken and a request waits
C1_Witness ==
  /\ config.maxConcurrentScans = MaxN
  /\ Cardinality(InFlight) = MaxN
  /\ queue # <<>>

\* C2 (as stated): requests are admitted in the order scanImageQueued was
\* called for them (request numbers are the order of those calls)
C2_FifoBySubmission ==
  \A i, j \in 1..Len(admitOrder) : i < j => admitOrder[i] < admitOrder[j]

\* C2 (amended): requests are admitted in the order DetectionQueue.add appended
\* them, i.e. the order in which their downloads completed: the admitted
\* requests followed by the waiting ones are the appended ones, in order
C2_FifoByAddOrder == admitOrder \o queue = addOrder

\* one slot, a later-submitted request was appended and admitted before an
\* earlier-submitted one, which had to wait for the slot
C2_Witness ==
  /\ config.maxConcurrentScans = 1
  /\ Len(admitOrder) >= 2
  /\ admitOrder[1] > admitOrder[2]

\* C3 (as stated): whatever maxConcurrentScans is, every request appended to
\* the queue is eventually admitted
C3_NoStarvation ==
  \A r \in Req : InSeq(r, addOrder) ~> (admits[r] > 0)

\* C3 (amended): when maxConcurrentScans >= 1, every request appended to the
\* queue is eventually admitted
C3_NoStarvationPositiveN ==
  \A r \in Req :
    (config.maxConcurrentScans >= 1 /\ InSeq(r, addOrder)) ~> (admits[r] > 0)

\* a request that found every slot taken has been admitted after a completion
C3_Witness ==
  /\ config.maxConcurrentScans = 1
  /\ Len(addOrder) >= 2
  /\ pc[addOrder[1]] = "done"
  /\ admits[addOrder[2]] > 0
  /\ queue # <<>>

\* the effect of the completion of request r's scan, in one step
CompletionEffect(r) ==
  /\ settles'[r] = settles[r] + 1
  /\ \A r2 \in Req \ {r} :
       /\ outcome'[r2] = outcome[r2]
       /\ settles'[r2] = settles[r2]
       /\ scanResult'[r2] = scanResult[r2]
  /\ IF queue = <<>>
     THEN processing' = processing - 1 /\ queue' = <<>>
     ELSE /\ processing' = processing
          /\ queue' = Tail(queue)
          /\ pc[Head(queue)] = "queued"
          /\ pc'[Head(queue)] = "hashing"

\* C4: a failing scan rejects only its own request; the counter is decremented
\* as on success, the next queued request is admitted and no other request's
\* outcome changes
C4_FailureIsolated ==
  [][\A r \in Req :
       (pc[r] = "returned" /\ pc'[r] = "done") =>
         /\ CompletionEffect(r)
         /\ scanResult[r].kind = "error" => outcome'[r] = "rejected"
         /\ scanResult[r].kind = "ok" => outcome'[r] = "resolved"]_vars

\* a scan failed, and the request that waited behind it was admitted and
\* resolved
C4_Witness ==
  /\ config.maxConcurrentScans = 1
  /\ Len(admitOrder) >= 2
  /\ scanResult[admitOrder[1]].kind = "error"
  /\ outcome[admitOrder[1]] = "rejected"
  /\ outcome[admitOrder[2]] = "resolved"

Classified(r) ==
  /\ scanResult[r].kind = "ok"
  /\ hashOutcome[r] = "nomatch"
  /\ providerFailed[r] = "no"

ThresholdsOrdered == config.reviewThreshold < config.detectionThreshold

\* C6: with reviewThreshold < detectionThreshold, a provider confidence c gives
\* flagged (and no review) when c >= dt, review (and not flagged) when
\* rt <= c < dt, and pass when c < rt
C6_DecisionBands ==
  \A r \in Req :
    (Classified(r) /\ ThresholdsOrdered) =>
      LET c == scanResult[r].confidence
          res == scanResult[r] IN
      /\ c >= config.detectionThreshold =>
           res.flagged /\ ~res.requiresReview
      /\ (c >= config.reviewThreshold /\ c < config.detectionThreshold) =>
           ~res.flagged /\ res.requiresReview
      /\ c < config.reviewThreshold =>
           ~res.flagged /\ ~res.requiresReview

\* C7: with reviewThreshold < detectionThreshold, no DetectionResult has both
\* flagged and requiresReview
C7_FlaggedExcludesReview ==
  \A r \in Req :
    (scanResult[r].kind = "ok" /\ ThresholdsOrdered) =>
      ~(scanResult[r].flagged /\ scanResult[r].requiresReview)

\* C8: when checkHashMatch reports a match, scanImage returns flagged,
\* confidence 1.0, method hash_match, no review, and detectWithAPI is not called
C8_HashMatchBypassesClassifier ==
  \A r \in Req :
    hashOutcome[r] = "matched" =>
      /\ apiCalls[r] = 0
      /\ providerFailed[r] = "-"
      /\ scanResult[r] = DetectionResult(TRUE, HashMatchConfidence,
                                         "hash_match", FALSE, NoApiDetection)

\* a hash match was delivered to the caller
C8_Witness ==
  \E r \in Req :
    /\ hashOutcome[r] = "matched"
    /\ outcome[r] = "resolved"
    /\ scanResult[r].method = "hash_match"

\* C9: when the call to the selected provider fails, the adapter returns
\* detected=false, confidence=0 and a non-empty error and the scan gets a
\* result, not an exception; no provider failure yields detected=true
C9_ProviderFailureAbsorbed ==
  \A r \in Req :
    /\ providerFailed[r] = "call" =>
         /\ scanResult[r].kind = "ok"
         /\ ~scanResult[r].apiDetection.threw
         /\ ~scanResult[r].apiDetection.detected
         /\ scanResult[r].apiDetection.confidence = 0
         /\ scanResult[r].apiDetection.error \notin {"", "-"}
    /\ providerFailed[r] = "upstream" =>
         /\ scanResult[r].kind = "ok"
         /\ ~scanResult[r].apiDetection.detected
         /\ scanResult[r].apiDetection.confidence = 0

\* the provider call of a scan failed and the scan still resolved
C9_Witness ==
  \E r \in Req :
    /\ providerFailed[r] = "call"
    /\ outcome[r] = "resolved"
    /\ scanResult[r].apiDetection.error = "network error"

\* C10 (as stated): no hash match and a failing provider give flagged=false
\* and requiresReview=false, whatever the thresholds
C10_FailOpen ==
  \A r \in Req :
    (hashOutcome[r] = "nomatch" /\ providerFailed[r] \in {"call", "upstream"}) =>
      /\ scanResult[r].kind = "ok"
      /\ ~scanResult[r].flagged
      /\ ~scanResult[r].requiresReview

\* C10 (amended): the same, for every detectionThreshold and every
\* reviewThreshold above 0
C10_FailOpenPositiveReviewThreshold ==
  \A r \in Req :
    (/\ hashOutcome[r] = "nomatch"
     /\ providerFailed[r] \in {"call", "upstream"}
     /\ config.reviewThreshold > 0) =>
      /\ scanResult[r].kind = "ok"
      /\ ~scanResult[r].flagged
      /\ ~scanResult[r].requiresReview

\* a provider failed under ordered thresholds and the scan passed the image
C10_Witness ==
  \E r \in Req :
    /\ hashOutcome[r] = "nomatch"
    /\ providerFailed[r] = "call"
    /\ config.reviewThreshold > 0
    /\ ThresholdsOrdered
    /\ outcome[r] = "resolved"
    /\ ~scanResult[r].flagged /\ ~scanResult[r].requiresReview

\* the provider priority list of the linked adapter module
ProviderPriority ==
  IF adapter = "url" THEN <<"cloudflare-worker", "sightengine">>
  ELSE <<"cloudflare", "sightengine">>

\* the provider's configuration is complete
FullyConfigured(provider) ==
  IF provider = "cloudflare-worker"
  THEN config.workerUrl /\ config.workerApiKey # ""
  ELSE IF provider = "cloudflare" THEN config.cloudflare
  ELSE config.sightengine

\* C11: a classification calls exactly the first provider of the priority
\* list whose configuration is complete, and no provider when none is
C11_FirstConfiguredProvider ==
  \A r \in Req :
    providerFailed[r] # "-" =>
      LET ready == {i \in 1..Len(ProviderPriority) :
                      FullyConfigured(ProviderPriority[i])} IN
      IF ready = {}
      THEN providerCalls[r] = <<>>
      ELSE LET first == CHOOSE i \in ready : \A j \in ready : i <= j IN
           providerCalls[r] = <<ProviderPriority[first]>>

\* two similarity values are the same number (a NaN equals nothing)
SameNumber(s, t) == s.den > 0 /\ t.den > 0 /\ s.num * t.den = t.num * s.den

Checked == hashOp.op = "check" /\ ~hashOp.result.threw

\* C13: hashes of differing length have similarity 0, so a check never
\* reports a match against a known hash whose length differs from the
\* computed hash
C13_DifferentLengthNeverMatches ==
  /\ (hashOp.op = "similarity" /\ Len(hashOp.hash1) # Len(hashOp.hash2)) =>
       SameNumber(hashOp.result, [num |-> 0, den |-> 1])
  /\ (Checked /\ hashOp.result.matched) =>
       Len(hashOp.result.matchedHash) = Len(hashOp.result.hash)

\* an active known hash one character longer than the computed hash, equal to
\* it on every common position, was checked and did not match
C13_Witness ==
  /\ Checked
  /\ ~hashOp.result.matched
  /\ hashOp.result.hash = Zeros(HashLen)
  /\ \E i \in 1..Len(hashDatabase) :
       hashDatabase[i] = KnownRow(Zeros(HashLen + 1), TRUE)

\* the active rows whose similarity with the hash reaches 0.95
Hits(hash) ==
  {i \in 1..Len(hashDatabase) :
     /\ hashDatabase[i].active
     /\ LET sim == calculateHammingDistance(hash, hashDatabase[i].hash) IN
        sim.den > 0 /\ sim.num * 100 >= HashMatchPercent * sim.den}

\* C14: a check reports a match exactly when some active known hash has
\* similarity >= 0.95 with the image hash, the reported matchedHash is the
\* first such row in iteration order, and inactive rows are never reported
C14_FirstActiveMatch ==
  Checked =>
    LET hits == Hits(hashOp.result.hash) IN
    IF hits = {} THEN ~hashOp.result.matched
    ELSE /\ hashOp.result.matched
         /\ LET first == CHOOSE i \in hits : \A j \in hits : i <= j IN
            hashOp.result.matchedHash = hashDatabase[first].hash

\* the first hit is reported although a later active row matches better
C14_Witness ==
  /\ Checked
  /\ hashOp.result.matched
  /\ hashOp.result.matchedHash # hashOp.result.hash
  /\ \E i \in Hits(hashOp.result.hash) :
       hashDatabase[i].hash = hashOp.result.hash

\* C15: no row of the hash store is ever removed; removeHash only sets
\* active=false on the rows with its hash and leaves every other row as it was;
\* checkHashMatch changes nothing in the store
C15_NeverPhysicallyRemoved ==
  [][/\ Len(hashDatabase') >= Len(hashDatabase)
     /\ \A i \in 1..Len(hashDatabase) :
          /\ hashDatabase'[i].hash = hashDatabase[i].hash
          /\ hashDatabase'[i] # hashDatabase[i] =>
               /\ hashOp'.op = "remove"
               /\ hashDatabase[i].hash = hashOp'.hash
               /\ ~hashDatabase'[i].active
     /\ hashOp'.op = "remove" => Len(hashDatabase') = Len(hashDatabase)
     /\ hashOp'.op \in {"check", "similarity"} => hashDatabase' = hashDatabase
    ]_vars

\* a removeHash has deactivated a row and left an active row beside it
C15_Witness ==
  /\ hashOp.op = "remove" /\ ~hashOp.threw
  /\ Len(hashDatabase) = MaxRows
  /\ \E i, j \in 1..Len(hashDatabase) :
       /\ hashDatabase[i].hash = hashOp.hash /\ ~hashDatabase[i].active
       /\ hashDatabase[j].hash # hashOp.hash /\ hashDatabase[j].active

\* C16: when computing the perceptual hash fails, the scan fails and the
\* caller's promise is rejected: no result is delivered, so none with
\* flagged=false, and the classifier is not called
C16_HashFailurePropagates ==
  \A r \in Req :
    hashOutcome[r] = "threw" =>
      /\ scanResult[r].kind = "error"
      /\ apiCalls[r] = 0
      /\ providerCalls[r] = <<>>
      /\ outcome[r] # "resolved"
      /\ pc[r] = "done" => outcome[r] = "rejected" /\ settles[r] = 1

\* a scan whose hashing failed has been rejected back to its caller
C16_Witness ==
  \E r \in Req :
    /\ hashOutcome[r] = "threw"
    /\ pc[r] = "done"
    /\ outcome[r] = "rejected"

\* the image of request r is larger than imageMaxSizeMB
Oversize(r) == imageSize[r] > config.imageMaxSizeMB

\* C17: an image larger than imageMaxSizeMB is rejected before the scheduler:
\* scanImageQueued fails for it, nothing is appended to the queue and the
\* in-flight counter is not changed
C17_OversizeRejectedBeforeQueue ==
  /\ [](\A r \in Req :
          Oversize(r) =>
            /\ pc[r] = "done" /\ outcome[r] = "rejected"
            /\ ~InSeq(r, addOrder) /\ ~InSeq(r, queue)
            /\ admits[r] = 0 /\ settles[r] = 0)
  /\ [][\A r \in Req :
          (pc[r] = "downloading" /\ Oversize(r)') =>
            UNCHANGED <<queue, processing, addOrder, admitOrder>>]_vars

\* an oversize image was rejected while a scan was running and another
\* request was waiting in the queue
C17_Witness ==
  \E r \in Req :
    /\ Oversize(r)
    /\ outcome[r] = "rejected"
    /\ processing > 0
    /\ queue # <<>>

\* C18: offenseCount never decreases, whatever offenses, approvals,
\* rejections (repeated ones too) and joins do; the User row is never removed
C18_OffenseCountNeverDecreases ==
  [][/\ user'.offenseCount >= user.offenseCount
     /\ user.exists => user'.exists]_vars

\* after two counted offenses the pending row was approved, the user was
\* banned on a join, and then a row was rejected
C18_Witness ==
  /\ user.offenseCount >= 2
  /\ user.globallyBanned
  /\ discordBans = Guilds
  /\ lastDecision.op = "reject"
  /\ lastDecision.ok
  /\ \E i \in 1..Len(bans) : bans[i].banType = "global_rejected"

\* the handling of flagged detection o has ended
Handled(o) == offense[o].pc = "done"

\* the flagged detections whose increment of offenseCount has happened
Counted == {o \in Offenses : offense[o].observed > 0}

\* C19: every flagged detection (requiresReview=false) attributed to the user
\* raises offenseCount by exactly 1, whatever autoDelete and autoBan are and
\* whether or not the User row existed
C19_OncePerConfirmedOffense ==
  /\ \A o \in Offenses : Handled(o) => o \in Counted
  /\ user.offenseCount = Cardinality(Counted)

\* C20: for concurrent handleUserOffense calls on one user, the counts the
\* calls observe are strictly increasing by 1 each (1, 2, 3, ... without
\* repeats or gaps), no call's offense is lost, and at most one call takes
\* the level-1 path
C20_ConcurrentOffensesSerialised ==
  /\ \A o1, o2 \in Counted :
       o1 # o2 => offense[o1].observed # offense[o2].observed
  /\ {offense[o].observed : o \in Counted} = 1..user.offenseCount
  /\ \A o \in Offenses : (offense[o].called /\ Handled(o)) => o \in Counted
  /\ Cardinality({o \in Offenses : offense[o].level = 1}) <= 1

\* the guilds in which the handler module in use has sanctioned the user
SanctionedIn == IF manager = "ban" THEN discordBans ELSE discordTimeouts

\* offense o takes the step in which its increment settles
IncrementStep(o) ==
  offense[o].pc = "updating" /\ offense'[o].pc = "sanctioning"

\* offense o takes the step in which its sanction function settles
SanctionStep(o) ==
  offense[o].pc = "sanctioning" /\ offense'[o].pc = "done"

NewRows == {bans'[i] : i \in (Len(bans) + 1)..Len(bans')}

\* the rows that existed before a step are as they were
OldRowsKept == Len(bans') >= Len(bans) /\ SubSeq(bans', 1, Len(bans)) = bans

\* C22: a first offense has no cross-guild effect: every step of handling a
\* detection that is not (or not yet known to be) a second or later offense
\* bans or times out in the originating guild at most, leaves globallyBanned
\* as it was, appends no level-2 record, changes no existing record and
\* creates no ModeratorReview row
C22_FirstOffenseStaysLocal ==
  [][\A o \in Offenses :
       offense'[o] # offense[o] /\ offense'[o].level # 2
         => /\ discordBans' \ discordBans \subseteq {offense'[o].guild}
            /\ discordTimeouts' \ discordTimeouts \subseteq {offense'[o].guild}
            /\ user'.globallyBanned = user.globallyBanned
            /\ OldRowsKept
            /\ \A row \in NewRows : row.level = 1
            /\ moderatorReviews' = moderatorReviews]_vars

\* a first offense was sanctioned in its guild and nowhere else, with the
\* user not globally banned and no review row
C22_Witness ==
  \E o \in Offenses :
    /\ offense[o].pc = "done"
    /\ offense[o].level = 1
    /\ offense[o].result = "sanctioned"
    /\ manager = "timeout"
    /\ discordTimeouts = {offense[o].guild}
    /\ discordBans = {}
    /\ ~user.globallyBanned
    /\ moderatorReviews = 0

\* C23: the step that settles a second or later offense (count 2 or more)
\* appends, when it reports the offense queued, exactly one record with level
\* 2, kind pending, active false for the guild of the offense; it appends
\* nothing else, changes no existing record and issues no ban and no timeout
\* in any guild
C23_LaterOffenseQueuedNotSanctioned ==
  [][\A o \in Offenses :
       SanctionStep(o) /\ offense[o].observed >= 2
         => /\ OldRowsKept
            /\ NewRows \subseteq {BanRow(offense[o].guild, 2,
                                         PendingType(manager), FALSE)}
            /\ offense'[o].result = "queued" => Len(bans') = Len(bans) + 1
            /\ discordBans' = discordBans
            /\ discordTimeouts' = discordTimeouts]_vars

\* a second offense in another guild was queued: its pending record exists
\* and the user is not sanctioned in that guild
C23_Witness ==
  \E o \in Offenses :
    /\ offense[o].pc = "done"
    /\ offense[o].observed = 2
    /\ offense[o].result = "queued"
    /\ Len(bans) = 2
    /\ bans[2] = BanRow(offense[o].guild, 2, PendingType(manager), FALSE)
    /\ bans[1].guild # offense[o].guild
    /\ offense[o].guild \notin SanctionedIn

\* C24: an offense that brought the count to 2 or more and was queued has a
\* pending ModeratorReview row created with its pending record, and the
\* moderation channel was notified
C24_ReviewItemAndNotification ==
  \A o \in Offenses :
    offense[o].pc = "done" /\ offense[o].observed >= 2
                           /\ offense[o].result = "queued"
      => moderatorReviews >= 1 /\ offense[o].notified

\* the step is a call of the decision op (approve, reject or join); the
\* flagged-detection steps are the ones that change offense
DecisionStep(op) == offense' = offense /\ lastDecision'.op = op

\* row i was pending before the step and is approved and active after it
Approved(i) ==
  /\ bans[i].banType = PendingType(manager)
  /\ bans'[i] = [bans[i] EXCEPT !.banType = ApprovedType(manager),
                                !.active = TRUE]

\* C25: when an approval aimed at a pending review reports success, the
\* pending record has become approved (global) with active true, no other
\* record has changed, and the user's globallyBanned is true
C25_ApprovalCommitsRecordAndUser ==
  [][DecisionStep("approve") /\ lastDecision'.target = "pending"
                             /\ lastDecision'.ok
       => /\ user'.globallyBanned
          /\ Len(bans') = Len(bans)
          /\ \E i \in 1..Len(bans) : Approved(i)
          /\ \A i \in 1..Len(bans) : bans'[i] = bans[i] \/ Approved(i)]_vars

\* an approval succeeded: the user is globally banned and the second
\* offense's record is approved and active
C25_Witness ==
  /\ lastDecision.op = "approve"
  /\ lastDecision.ok
  /\ user.globallyBanned
  /\ Len(bans) = 2
  /\ bans[2].banType = ApprovedType(manager)
  /\ bans[2].active

\* C26: an approval of a pending review that reaches its fan-out issues a ban
\* attempt to every guild the bot serves, also when the attempt in one guild
\* fails; the guilds whose attempt succeeded are banned, no earlier ban is
\* lost, and the committed transition (record approved, globallyBanned true)
\* stays in place
C26_FanOutReachesEveryGuild ==
  [][DecisionStep("approve") /\ lastDecision'.target = "pending"
                             /\ lastDecision'.attempted # {}
       => /\ lastDecision'.attempted = Guilds
          /\ discordBans \subseteq discordBans'
          /\ discordBans' \subseteq discordBans \cup Guilds
          /\ user'.globallyBanned
          /\ \E i \in 1..Len(bans) : Approved(i)]_vars

\* an approval whose ban attempt failed in guild 1 still attempted every
\* guild, banned in guild 2 and kept the transition
C26_Witness ==
  /\ lastDecision.op = "approve"
  /\ lastDecision.target = "pending"
  /\ lastDecision.attempted = Guilds
  /\ 1 \notin discordBans
  /\ 2 \in discordBans
  /\ user.globallyBanned
  /\ \E i \in 1..Len(bans) : bans[i].banType = ApprovedType(manager)
                             /\ bans[i].active

\* C27: an approval of a pending review whose state transition succeeded (the
\* record is approved and globallyBanned is true) returns true, whatever
\* happens in the ban attempts and the moderation-channel notification after
\* it
C27_SuccessReportedWhenCommitted ==
  [][DecisionStep("approve") /\ lastDecision'.target = "pending"
                             /\ user'.globallyBanned
                             /\ (\E i \in 1..Len(bans) : Approved(i))
       => lastDecision'.ok]_vars

\* row i was pending before the step and is rejected and inactive after it
Rejected(i) ==
  /\ bans[i].banType = PendingType(manager)
  /\ bans'[i] = [bans[i] EXCEPT !.banType = RejectedType, !.active = FALSE]

\* C28: a rejection aimed at a pending review turns, when its update
\* succeeds, the pending record into global_rejected with active false and
\* changes no other record; whether it succeeds or not it issues no ban and no
\* timeout in any guild and leaves offenseCount and globallyBanned unchanged
C28_RejectionOnlyMarksRecord ==
  [][DecisionStep("reject") /\ lastDecision'.target = "pending"
       => /\ lastDecision'.ok => \E i \in 1..Len(bans) : Rejected(i)
          /\ Len(bans') = Len(bans)
          /\ \A i \in 1..Len(bans) : bans'[i] = bans[i] \/ Rejected(i)
          /\ discordBans' = discordBans
          /\ discordTimeouts' = discordTimeouts
          /\ user' = user]_vars

\* a pending review was rejected: its record is rejected and inactive, the
\* count is still 2 and the user is not globally banned
C28_Witness ==
  /\ lastDecision.op = "reject"
  /\ lastDecision.target = "pending"
  /\ lastDecision.ok
  /\ Len(bans) = 2
  /\ bans[2].banType = RejectedType
  /\ ~bans[2].active
  /\ user.offenseCount = 2
  /\ ~user.globallyBanned

\* C29: rejecting a review that is already rejected changes nothing: every
\* record, offenseCount, globallyBanned and the bans and timeouts issued are
\* as they were after the first rejection
C29_RejectionIdempotent ==
  [][DecisionStep("reject") /\ lastDecision'.target = "rejected"
       => /\ bans' = bans
          /\ user' = user
          /\ discordBans' = discordBans
          /\ discordTimeouts' = discordTimeouts]_vars

\* a rejected review was rejected again and the call succeeded; the count is
\* still 2 and the record still rejected
C29_Witness ==
  /\ lastDecision.op = "reject"
  /\ lastDecision.target = "rejected"
  /\ lastDecision.ok
  /\ user.offenseCount = 2
  /\ Len(bans) = 2
  /\ bans[1] = BanRow(bans[1].guild, 1, "server", TRUE)
  /\ bans[2] = BanRow(bans[2].guild, 2, RejectedType, FALSE)

C31_GloballyBannedTerminal ==
  [][/\ user.globallyBanned => user'.globallyBanned
     /\ \A o \in Offenses :
          SanctionStep(o) /\ user.globallyBanned
            => /\ bans' = bans
               /\ discordBans' = discordBans
               /\ discordTimeouts' = discordTimeouts]_vars

\* the scan of request r completed with flagged=true and no review required
ScanFlagged(r) ==
  /\ outcome[r] = "resolved"
  /\ scanResult[r].flagged
  /\ ~scanResult[r].requiresReview

\* the User row, the Ban rows, the sanctions issued and the messages deleted
escalationState == <<user, bans, discordBans, discordTimeouts, deleted>>

\* C32: the User row and the Ban rows are read or written only in handling a
\* detection whose scan completed with flagged=true; a scan that failed (in
\* the download, the size check, the hash or the scan itself) starts no
\* handling, deletes no message, and leaves offenseCount, globallyBanned, the
\* records and the sanctions issued unchanged
C32_FailedScanLeavesEscalationAlone ==
  /\ [](\A r \in Offenses :
          /\ offense[r] # NoOffense \/ r \in deleted => ScanFlagged(r)
          /\ outcome[r] = "rejected" => attachment[r].branch
                                          \in {"-", "scan-failed"})
  /\ [][/\ escalationState' # escalationState
          => \E o \in Offenses : offense'[o] # offense[o] /\ ScanFlagged(o)
        /\ \A r \in Offenses :
             attachment[r] # attachment'[r] /\ outcome[r] = "rejected"
               => /\ escalationState' = escalationState
                  /\ offense' = offense
                  /\ moderatorReviews' = moderatorReviews]_vars

\* a scan failed and was dealt with while the other detection of the user
\* was flagged and sanctioned: one offense is counted, one record exists
C32_Witness ==
  /\ attachment[1].branch = "scan-failed"
  /\ offense[1] = NoOffense
  /\ attachment[2].branch = "flagged"
  /\ offense[2].pc = "done"
  /\ offense[2].result = "sanctioned"
  /\ deleted = {2}
  /\ user.offenseCount = 1
  /\ Len(bans) = 1

\* the attachments whose handling created a ModeratorReview row
Reviewed == {r \in Req : attachment[r].reviews > 0}

C34_DecisionsOnlyOnPending ==
  [][(DecisionStep("approve") \/ DecisionStep("reject"))
       /\ lastDecision'.target # "pending"
       => /\ bans' = bans
          /\ user' = user
          /\ discordBans' = discordBans]_vars

\* C35: a user is globally banned only if one of the user's records is
\* approved (global) and active
C35_GlobalBanHasApprovedRecord ==
  user.globallyBanned
    => \E i \in 1..Len(bans) : bans[i].banType = ApprovedType(manager)
                               /\ bans[i].active

\* C36: an approval that returns false has changed no record, has not changed
\* globallyBanned and has issued no ban
C36_ApprovalAllOrNothing ==
  [][DecisionStep("approve") /\ ~lastDecision'.ok
       => /\ bans' = bans
          /\ user' = user
          /\ discordBans' = discordBans]_vars

\* the records of the given level
RowsOfLevel(level) == {i \in 1..Len(bans) : bans[i].level = level}

\* C37: at most one level-1 record is ever created for the user, and a
\* level-2 record exists only once the level-1 record exists and its local
\* sanction was executed
C37_LocalRecordBeforePending ==
  /\ Cardinality(RowsOfLevel(1)) <= 1
  /\ RowsOfLevel(2) # {}
       => \E i \in RowsOfLevel(1) : bans[i].guild \in SanctionedIn

\* every request that was submitted has completed or failed
AllSettled == \A r \in Req : pc[r] \in {"idle", "done"}

\* C38: the scan queue is work-conserving: whenever a request waits in the
\* DetectionQueue the in-flight counter equals maxConcurrentScans (no request
\* waits while a slot is free), and the counter is 0 once every submitted
\* request has completed or failed
C38_WorkConserving ==
  /\ Len(queue) > 0 => processing = config.maxConcurrentScans
  /\ AllSettled => processing = 0 /\ queue = <<>>

\* two scans are in flight with two slots configured and a third waits
C38_Witness ==
  /\ config.maxConcurrentScans = MaxN
  /\ processing = MaxN
  /\ Len(queue) >= 1
  /\ Cardinality(InFlight) = MaxN

\* C39: the worker runs a detection (image fetch and AI call) only for a POST
\* whose X-API-Key is present and equal to the configured API_KEY; any other
\* method but OPTIONS gets 405 and a POST with a missing or different key gets
\* 401, both without an outbound call and without a detection result
C39_WorkerRequiresKey ==
  workerOp.op = "fetch" =>
    LET request == workerOp.request
        response == workerOp.response
        keyOk == request.apiKey # "" /\ request.apiKey = workerOp.world.envKey
    IN /\ response.outbound => request.method = "POST" /\ keyOk
       /\ request.method \notin {"POST", "OPTIONS"}
            => /\ response.status = 405
               /\ ~response.outbound
               /\ response.body = "Method not allowed"
       /\ request.method = "POST" /\ ~keyOk
            => /\ response.status = 401
               /\ ~response.outbound
               /\ response.body = "Unauthorized"

\* a POST with another key than the configured one, for an image the worker
\* could have fetched, was refused with 401 and no outbound call
C39_Witness ==
  /\ workerOp.op = "fetch"
  /\ workerOp.request.method = "POST"
  /\ workerOp.request.apiKey = "k2"
  /\ workerOp.request.imageUrl
  /\ workerOp.world.envKey = "k1"
  /\ workerOp.world.img
  /\ workerOp.response.status = 401
  /\ ~workerOp.response.outbound

====
